---- MODULE Spec2Model ----
(***************************************************************************)
(* Verification model of the post-processing core of                       *)
(* openfoamEmbedded3DP:                                                    *)
(*   - steadyList, summarize, sumAndSteady (src/py/interfacemetrics.py)    *)
(*   - survival/addStep,   survivalCalc (src/pythonscripts/plot_metrics.py)*)
(*   - survivalRateRZ      (src/pythonscripts/plot_metrics.py)             *)
(*   - times, parseVTKSeries, redoVTKSeriesNoLog (src/py/folderparser.py)  *)
(*                                                                         *)
(* Numbers are fixed point.  Times and axial positions are integers in     *)
(* units of 10^-5 (so 1.0 is Unit), the watched metric and its tolerance   *)
(* are integers in units of 10^-2.                                         *)
(***************************************************************************)
EXTENDS Integers, Sequences, FiniteSets, TLC

VARIABLES
    \* ---- steadyList ----
    ss,          \* the slice summary table read by steadyList (set of rows)
    mode,        \* 'xbehind' or 'time'
    dother,      \* window width of the scanning variable
    vdcrit,      \* tolerance on the range of the watched column
    steadyPc,    \* "input" before the call, "done" after it
    steadyOut,   \* the table steadyList returned
    \* ---- one survival object and the addStep calls made on it ----
    trk,         \* the fields of the survival object
    presented,   \* the rows handed to addStep so far, in order
    prevTrk,     \* the fields of the object before the latest addStep call
    \* ---- survivalCalc ----
    df,          \* the points importPtsNoz returned (set of rows)
    dr,          \* the width of a radial bin, in units of 10^-2
    fcrit,       \* the min fraction of points, in tenths
    calcPc,      \* "input" before the call, "done" after it
    rzOut,       \* what survivalCalc returned
    rateOut,     \* what survivalRateRZ returned for rzOut
    \* ---- one simulation folder on disk and the times() calls on it ----
    disk,        \* layout, sub-directory names, VTK files, manifest, clock
    calls,       \* the number of times() calls made
    timesRet,    \* what the latest times() call returned
    timesT1,     \* t1 of the latest call: timesFromFolder(folder)
    timesT2,     \* t2 of the latest call: parseVTKSeries(folder)
    prevDisk,    \* the disk before the latest times() call
    \* ---- one .vtm snapshot file and the readVTM/correctVTM calls on it ----
    vtmOrig,     \* the lines of the file before the first call
    vtmFile,     \* the lines of the file
    vtmPrev,     \* the lines of the file before the latest call
    vtmRet,      \* (folderlabel, time) of the latest readVTM call
    vtmPrevRet,  \* (folderlabel, time) of the readVTM call before it
    vtmOps,      \* the calls made so far: "read" or "correct"
    vtmWrote,    \* the latest call wrote the file
    \* ---- two processes that regenerate the manifest of one folder ----
    wpc,         \* where each process stands in generateVTKSeries/exportFile
    wtext,       \* the number of entries of the text each process built
    mfile,       \* the characters of the .series file on disk
    rsaw,        \* what the latest parseVTKSeries read of the file
    \* ---- one simulation folder under summarize ----
    sim,         \* legend, interfacePoints files, sliceSummaries.csv
    sumPc,       \* "input" before the call, "done" after it, "again" after a repeated call
    sumRet,      \* the value summarize returned
    ssRaw,       \* what summarizeSlices returned inside the call
    sumOverwrite, \* the overwrite argument of the summarize calls
    sumPrevRet,  \* the value the summarize call before the latest returned
    tables,      \* steadyTimes.csv and steadyPositions.csv of the folder
    pipe         \* the sumAndSteady call: its argument, the files before it, what it wrote

steadyVars == <<ss, mode, dother, vdcrit, steadyPc, steadyOut>>
trackVars == <<trk, presented, prevTrk>>
calcVars == <<df, dr, fcrit, calcPc, rzOut, rateOut>>

timesVars == <<disk, calls, timesRet, timesT1, timesT2, prevDisk>>
vtmVars == <<vtmOrig, vtmFile, vtmPrev, vtmRet, vtmPrevRet, vtmOps, vtmWrote>>
writerVars == <<wpc, wtext, mfile, rsaw>>
sliceVars == <<sim, sumPc, sumRet, ssRaw, sumOverwrite, sumPrevRet, tables, pipe>>

vars ==
    <<steadyVars, trackVars, calcVars, timesVars, vtmVars, writerVars, sliceVars>>

-----------------------------------------------------------------------------
(* Generic helpers *)

SetMax(S) == CHOOSE m \in S : \A e \in S : e <= m
SetMin(S) == CHOOSE m \in S : \A e \in S : m <= e

RECURSIVE SortedSeq(_)
\* ascending sequence of the elements of a finite set of integers
SortedSeq(S) ==
    IF S = {} THEN <<>>
    ELSE LET m == SetMin(S) IN <<m>> \o SortedSeq(S \ {m})

Last(s) == s[Len(s)]
\* element at a zero-based index
At(s, i) == s[i + 1]

-----------------------------------------------------------------------------
(* Fixed-point units and bounds of the steady-state model *)

Unit == 10^5                 \* 1.0 of a time or a position
MetricUnit == 10^2           \* 1.0 of the watched column

NumGroups == 2               \* distinct values of the grouping variable
MaxScan == 3                 \* scan values are indexed 0..MaxScan
MaxRows == 5                 \* rows of the slice summary table

\* simulation times are written by the solver as exact decimals
TimeVal(k) == k * Unit
\* axial positions are differences of float coordinates: k*1.00004
XVal(k) == k * (Unit + 4)

ColVals == {10, 11, 50}      \* vertdispn 0.10, 0.11, 0.50

RowDomain(m) ==
    IF m = "xbehind"
    THEN [time : {TimeVal(k) : k \in 0..MaxScan},
          xbehind : {XVal(g) : g \in 0..(NumGroups-1)},
          vertdispn : ColVals]
    ELSE [time : {TimeVal(g) : g \in 0..(NumGroups-1)},
          xbehind : {XVal(k) : k \in 0..MaxScan},
          vertdispn : ColVals]

RECURSIVE SubsetsUpTo(_, _)
\* the subsets of S with at most n elements
SubsetsUpTo(S, n) ==
    IF n = 0 THEN {{}}
    ELSE LET smaller == SubsetsUpTo(S, n-1)
         IN smaller \cup {T \cup {e} : T \in smaller, e \in S}

-----------------------------------------------------------------------------
(* steadyList, src/py/interfacemetrics.py:613-672 *)

\* round(v, 3) of a non-negative value
Round3(v) == ((v + 50) \div 100) * 100

\* the value 100 that vdrange starts from
VdrangeInit == 100 * MetricUnit
\* the value 1000 reported as the end of an open-ended window
OtherfOpen == 1000 * Unit

Other(m) == IF m = "xbehind" THEN "time" ELSE "xbehind"
Get(r, c) == IF c = "time" THEN r.time ELSE r.xbehind

\* file order of the table: summarize sorts by time, then x
RowBefore(r1, r2) ==
    \/ r1.time < r2.time
    \/ r1.time = r2.time /\ r1.xbehind < r2.xbehind
    \/ r1.time = r2.time /\ r1.xbehind = r2.xbehind /\ r1.vertdispn < r2.vertdispn

RECURSIVE TableRows(_)
TableRows(S) ==
    IF S = {} THEN <<>>
    ELSE LET r == CHOOSE x \in S : \A y \in S \ {x} : RowBefore(x, y)
         IN <<r>> \o TableRows(S \ {r})

RECURSIVE UniqueOf(_, _, _)
\* pandas unique(): the values of column c in order of first appearance
UniqueOf(rows, c, seen) ==
    IF rows = <<>> THEN <<>>
    ELSE LET v == Get(Head(rows), c)
         IN IF v \in seen THEN UniqueOf(Tail(rows), c, seen)
            ELSE <<v>> \o UniqueOf(Tail(rows), c, seen \cup {v})

\* alternative chunk that takes dother as the half width
ChunkHalfIsWidth(l1, other, xtother, dw) ==
    {r \in l1 : Get(r, other) >= xtother - dw
             /\ Get(r, other) <= xtother + dw}

\* l2: the chunk of size dother centered around xtother
Chunk(l1, other, xtother, dw) ==
    {r \in l1 : 2 * Get(r, other) >= 2 * xtother - dw
             /\ 2 * Get(r, other) <= 2 * xtother + dw}

\* l2[col].max() - l2[col].min()
Vdrange(l2) ==
    SetMax({r.vertdispn : r \in l2}) - SetMin({r.vertdispn : r \in l2})

RECURSIVE SeekSteady(_, _, _, _, _, _, _)
\* first while loop: advance while the range is above the tolerance
SeekSteady(l1, list2, other, dw, crit, i, vdrange) ==
    IF vdrange > crit /\ i + 1 < Len(list2)
    THEN SeekSteady(l1, list2, other, dw, crit, i + 1,
                    Vdrange(Chunk(l1, other, At(list2, i + 1), dw)))
    ELSE [i |-> i, vdrange |-> vdrange]

RECURSIVE SeekUnsteady(_, _, _, _, _, _, _)
\* second while loop: advance while the range is within the tolerance
SeekUnsteady(l1, list2, other, dw, crit, i, vdrange) ==
    IF vdrange <= crit /\ i + 1 < Len(list2)
    THEN SeekUnsteady(l1, list2, other, dw, crit, i + 1,
                      Vdrange(Chunk(l1, other, At(list2, i + 1), dw)))
    ELSE [i |-> i, vdrange |-> vdrange]

\* the row appended to flatlist, after the rounding of lines 666-670
FlatRow(m, modevar, other0, otherf) ==
    IF m = "xbehind"
    THEN [modevar |-> Round3(modevar), other0 |-> other0, otherf |-> otherf]
    ELSE [modevar |-> modevar, other0 |-> Round3(other0), otherf |-> Round3(otherf)]

RECURSIVE AllWindows(_, _, _, _, _, _)
\* every window of the group, searching on after the end of each one
AllWindows(l1, list2, m, dw, crit, from) ==
    LET xtmode == Get(CHOOSE r \in l1 : TRUE, m)
        s1 == SeekSteady(l1, list2, Other(m), dw, crit, from, VdrangeInit)
    IN IF s1.i + 1 < Len(list2)
       THEN LET s2 == SeekUnsteady(l1, list2, Other(m), dw, crit, s1.i, s1.vdrange)
                otherf == IF s2.i + 1 < Len(list2) THEN At(list2, s2.i) ELSE OtherfOpen
            IN <<FlatRow(m, xtmode, At(list2, s1.i), otherf)>>
               \o AllWindows(l1, list2, m, dw, crit, s2.i)
       ELSE <<>>

\* a loop body that reports every window of the group
GroupRowsAllWindows(l1, m, dw, crit) ==
    AllWindows(l1, SortedSeq({Get(r, Other(m)) : r \in l1}), m, dw, crit, -1)

\* body of the for loop over list1: the rows appended to flatlist for one group
GroupRows(l1, m, dw, crit) ==
    LET other == Other(m)
        xtmode == Get(CHOOSE r \in l1 : TRUE, m)
        list2 == SortedSeq({Get(r, other) : r \in l1})
        s1 == SeekSteady(l1, list2, other, dw, crit, -1, VdrangeInit)
    IN IF s1.i + 1 < Len(list2)
       THEN LET other0 == At(list2, s1.i)
                s2 == SeekUnsteady(l1, list2, other, dw, crit, s1.i, s1.vdrange)
                otherf == IF s2.i + 1 < Len(list2) THEN At(list2, s2.i) ELSE OtherfOpen
            IN <<FlatRow(m, xtmode, other0, otherf)>>
       ELSE <<>>

RECURSIVE ForGroups(_, _, _, _, _)
ForGroups(table, list1, m, dw, crit) ==
    IF list1 = <<>> THEN <<>>
    ELSE GroupRows({r \in table : Get(r, m) = Head(list1)}, m, dw, crit)
         \o ForGroups(table, Tail(list1), m, dw, crit)

\* a steadyList that enters the loop over the groups whatever the length
steadyListAlwaysLoops(table, dw, crit, m) ==
    [units |-> TRUE,
     rows |-> ForGroups(table, UniqueOf(TableRows(table), m, {}), m, dw, crit)]

\* the table returned: units tells whether the leading units row is present
steadyList(table, dw, crit, m) ==
    IF Cardinality(table) < 2
    THEN [units |-> FALSE, rows |-> <<>>]
    ELSE [units |-> TRUE,
          rows |-> ForGroups(table, UniqueOf(TableRows(table), m, {}), m, dw, crit)]

-----------------------------------------------------------------------------
(* class survival, src/pythonscripts/plot_metrics.py:616-663                *)
(*                                                                         *)
(* Lengths (x, z) are integers in units of 0.1 mm, velocities in mm/s,     *)
(* times in units of 10^-4 s, stresses in Pa.  Survival fractions are      *)
(* integers in units of 1/IScale.  The constant a is given in units of     *)
(* 10^-2; b and c are at their default 0.5.                                *)

IScale == 10^4               \* the survival fraction 1

RECURSIVE SqrtBetween(_, _, _)
\* the largest r in lo..hi with r*r <= n
SqrtBetween(n, lo, hi) ==
    IF lo = hi THEN lo
    ELSE LET mid == (lo + hi + 1) \div 2
         IN IF mid * mid <= n THEN SqrtBetween(n, mid, hi)
            ELSE SqrtBetween(n, lo, mid - 1)
\* np.sqrt, rounded down
ISqrt(n) == SqrtBetween(n, 0, IF n < 40000 THEN n ELSE 40000)

\* np.exp(-y) for y given in units of 1/IScale: 1/(1 + y + y^2/2) for
\* y >= 0 and 1 + |y| + y^2/2 for y < 0; it is 1 at 0, positive, decreasing
ExpNeg(y) ==
    IF y >= 0
    THEN (IScale * IScale) \div (IScale + y + (y * y) \div (2 * IScale))
    ELSE IScale + (0 - y) + (y * y) \div (2 * IScale)

\* survival.__init__
NewSurvival(rbar, a) ==
    [rbar |-> rbar, zlist |-> <<>>, xlist |-> <<>>, totalI |-> IScale,
     Ilist |-> <<IScale>>, tlist |-> <<0>>, dtlist |-> <<0>>,
     taulist |-> <<0>>, vlist |-> <<0>>, a |-> a]

\* a step survival that is not limited to 1
NoClamp(Ii) == Ii
\* Ii = min(1, Ii)
ClampOne(Ii) == IF Ii < IScale THEN Ii ELSE IScale

\* traveled/v: 0.1 mm over mm/s, in units of 10^-4 s
StepTime(t, row) ==
    LET dz == Last(t.zlist) - row.z
        dx == Last(t.xlist) - row.x
    IN (ISqrt(dz * dz + dx * dx) * 1000) \div row.magu

\* np.exp(-a*tau**b*dt**c) with b = c = 0.5
StepSurvival(a, tau, dt) == ExpNeg(a * ISqrt(tau * dt))

\* a discontinuity test that returns only after the history was extended
addStepRecordsRejected(t, row) ==
    IF Len(t.zlist) = 0
    THEN [t EXCEPT !.zlist = Append(@, row.z), !.xlist = Append(@, row.x)]
    ELSE LET dt == StepTime(t, row)
             Ii == IF 10 * row.magu < Last(t.vlist) THEN IScale
                   ELSE ClampOne(StepSurvival(t.a, row.shearstressmag, dt))
             total == (t.totalI * Ii) \div IScale
         IN [t EXCEPT !.totalI = total,
                      !.Ilist = Append(@, total),
                      !.tlist = Append(@, Last(t.tlist) + dt),
                      !.taulist = Append(@, row.shearstressmag),
                      !.dtlist = Append(@, dt),
                      !.xlist = Append(@, row.x),
                      !.zlist = Append(@, row.z),
                      !.vlist = Append(@, row.magu)]

\* an addStep whose first call also records a sample of survival and time
addStepFirstRecordsSample(t, row) ==
    IF Len(t.zlist) = 0
    THEN [t EXCEPT !.zlist = Append(@, row.z), !.xlist = Append(@, row.x),
                   !.Ilist = Append(@, t.totalI), !.tlist = Append(@, 0)]
    ELSE LET v == row.magu
             dt == StepTime(t, row)
             tau == row.shearstressmag
         IN IF 10 * v < Last(t.vlist)
            THEN t
            ELSE LET Ii == ClampOne(StepSurvival(t.a, tau, dt))
                     total == (t.totalI * Ii) \div IScale
                 IN [t EXCEPT !.totalI = total,
                              !.Ilist = Append(@, total),
                              !.tlist = Append(@, Last(t.tlist) + dt),
                              !.taulist = Append(@, tau),
                              !.dtlist = Append(@, dt),
                              !.xlist = Append(@, row.x),
                              !.zlist = Append(@, row.z),
                              !.vlist = Append(@, v)]

\* survival.addStep
addStep(t, row) ==
    IF Len(t.zlist) = 0
    THEN [t EXCEPT !.zlist = Append(@, row.z), !.xlist = Append(@, row.x)]
    ELSE LET v == row.magu
             dt == StepTime(t, row)
             tau == row.shearstressmag
         IN IF 10 * v < Last(t.vlist)
            THEN t
            ELSE LET Ii == ClampOne(StepSurvival(t.a, tau, dt))
                     total == (t.totalI * Ii) \div IScale
                 IN [t EXCEPT !.totalI = total,
                              !.Ilist = Append(@, total),
                              !.tlist = Append(@, Last(t.tlist) + dt),
                              !.taulist = Append(@, tau),
                              !.dtlist = Append(@, dt),
                              !.xlist = Append(@, row.x),
                              !.zlist = Append(@, row.z),
                              !.vlist = Append(@, v)]

-----------------------------------------------------------------------------
(* survivalCalc, src/pythonscripts/plot_metrics.py:666-722                  *)
(*                                                                         *)
(* A point carries its coordinates, the normalized radius that line 687    *)
(* computes for it (in units of 10^-2), its velocity magnitude and its     *)
(* shear stress magnitude.                                                 *)

\* the legend values survivalCalc reads, lengths in units of 0.1 mm
Legend == [xc |-> 0, zbot |-> 0, ztop |-> 40]

\* lines 680-685: z relative to the nozzle bottom, top 10% cut off, y = 0
\* plane, front half of the nozzle
NozzlePlane(pts) ==
    {q \in {[p EXCEPT !.z = Legend.zbot - p.z] : p \in pts} :
        /\ 10 * q.z > 0 - 9 * Legend.ztop
        /\ q.y > -1 /\ q.y < 1
        /\ q.x < Legend.xc}

\* line 688: round(int(rbar/dr)*dr, 5)
RbarBin(rbar, binw) == (rbar \div binw) * binw

\* lines 694-695: np.arange(0, 1, dr), as a set
Rbarlist(binw) == {k * binw : k \in {j \in 0..(100 \div binw) : j * binw < 100}}

RECURSIVE SumOf(_, _)
\* the sum of column c over the rows of S
SumOf(S, c) ==
    IF S = {} THEN 0
    ELSE LET e == CHOOSE q \in S : TRUE IN e[c] + SumOf(S \ {e}, c)

\* line 704: df1.mean()
MeanRow(df1) ==
    LET n == Cardinality(df1)
    IN [x |-> SumOf(df1, "x") \div n, z |-> SumOf(df1, "z") \div n,
        magu |-> SumOf(df1, "magu") \div n,
        shearstressmag |-> SumOf(df1, "shearstressmag") \div n]

RECURSIVE FoldPlanes(_, _, _, _, _)
\* lines 699-705 for one rbar: the planes in ascending z
FoldPlanes(t, rbar, binw, zlist, pts) ==
    IF zlist = <<>> THEN t
    ELSE LET df1 == {p \in pts : p.z = Head(zlist) /\ RbarBin(p.rbar, binw) = rbar
                                 /\ p.magu > 0}
         IN FoldPlanes(IF df1 # {} THEN addStep(t, MeanRow(df1)) ELSE t,
                       rbar, binw, Tail(zlist), pts)

\* a list of planes that is put in descending order
CalcPlanesDescending(pts) ==
    LET up == SortedSeq({p.z : p \in NozzlePlane(pts)})
    IN [i \in 1..Len(up) |-> up[Len(up) + 1 - i]]

\* lines 697-698: the distinct z of the plane, in ascending order
CalcPlanes(pts) == SortedSeq({p.z : p \in NozzlePlane(pts)})

\* the survival object of rbar after the loop over the planes
TrackOf(pts, a, binw, rbar) ==
    FoldPlanes(NewSurvival(rbar, a), rbar, binw, CalcPlanes(pts), NozzlePlane(pts))

\* lines 708-713: the series that are too short
TooShort(t, nplanes) == 10 * Len(t.zlist) < 9 * nplanes

\* survivalCalc: isDict is FALSE for the empty list of line 671
survivalCalc(pts, a, binw, fc) ==
    IF pts = {} THEN [isDict |-> FALSE, rz |-> <<>>]
    ELSE LET nplanes == Len(CalcPlanes(pts))
             keys == {rbar \in Rbarlist(binw) :
                         ~TooShort(TrackOf(pts, a, binw, rbar), nplanes)}
         IN [isDict |-> TRUE,
             rz |-> [rbar \in keys |-> TrackOf(pts, a, binw, rbar)]]

\* line 729: the area of the ring of rbar, in units of 10^-4
RingArea(rbar, binw) == rbar * rbar - (rbar - binw) * (rbar - binw)

RECURSIVE RingSums(_, _, _)
\* lines 726-731: weightedsum and weight after the loop over the keys
RingSums(rz, keys, binw) ==
    IF keys = {} THEN [weightedsum |-> 0, weight |-> 0]
    ELSE LET rbar == CHOOSE k \in keys : TRUE
             rest == RingSums(rz, keys \ {rbar}, binw)
         IN [weightedsum |-> rest.weightedsum + rz[rbar].totalI * RingArea(rbar, binw),
             weight |-> rest.weight + RingArea(rbar, binw)]

\* survivalRateRZ: weightedsum/weight; with a weight of 0 the division gives
\* no number (ZeroDivisionError, nan or inf), reported as defined = FALSE
survivalRateRZ(rz, binw) ==
    LET sums == RingSums(rz, DOMAIN rz, binw)
    IN IF sums.weight = 0 THEN [defined |-> FALSE, val |-> 0]
       ELSE [defined |-> TRUE, val |-> sums.weightedsum \div sums.weight]

-----------------------------------------------------------------------------
(* Time-series reconciler, src/py/folderparser.py:92-113, 158-250, 301-453  *)
(*                                                                         *)
(* A text (a directory name, a snapshot label, a time as it stands in a    *)
(* file) is a sequence of characters: the digits 0..9 stand for            *)
(* themselves, Dot for '.', which sorts before the digits, and Letter for  *)
(* any other character.  A float is an integer in tenths.                  *)

Dot == -1
Letter == 99

RECURSIVE DigitsValue(_, _)
\* the value of a run of digits
DigitsValue(txt, acc) ==
    IF txt = <<>> THEN acc ELSE DigitsValue(Tail(txt), 10 * acc + Head(txt))

\* float(name) succeeds: digits, at most one '.', one digit after it
IsFloat(txt) ==
    /\ txt # <<>>
    /\ \A i \in DOMAIN txt : txt[i] \in 0..9 \/ (txt[i] = Dot /\ i = Len(txt) - 1)
    /\ txt[1] # Dot
\* float(name), in tenths
Float(txt) ==
    IF Len(txt) >= 2 /\ txt[Len(txt) - 1] = Dot
    THEN 10 * DigitsValue(SubSeq(txt, 1, Len(txt) - 2), 0) + txt[Len(txt)]
    ELSE 10 * DigitsValue(txt, 0)

RECURSIVE TextBefore(_, _)
\* the order of str: character by character, a prefix first
TextBefore(a, b) ==
    IF b = <<>> THEN FALSE
    ELSE IF a = <<>> THEN TRUE
    ELSE IF Head(a) # Head(b) THEN Head(a) < Head(b)
    ELSE TextBefore(Tail(a), Tail(b))

\* caseFolder: '' for a folder that is not recognised
caseFolder(d) == IF d.layout = "none" THEN "" ELSE d.layout

\* VTKFolder succeeds: the VTK folder of the case folder exists
HasVTK(d) == d.layout # "none" /\ d.vtk

\* vtkFiles
vtkFiles(d) == IF HasVTK(d) THEN Cardinality(d.snaps) ELSE 0

\* exportFile: the file is written at the current clock value
Tick(d) == [d EXCEPT !.now = @ + 1]

\* readVTM on every .vtm file: the label '0' with another time is corrected
\* by correctVTM, which rewrites the file
ReadAll(d) ==
    LET fix(f) == IF f.label = <<0>> /\ f.time # <<0>>
                  THEN [f EXCEPT !.time = <<0>>, !.mtime = d.now] ELSE f
        fixed == {fix(f) : f \in d.snaps}
    IN IF fixed = d.snaps THEN d ELSE Tick([d EXCEPT !.snaps = fixed])

RECURSIVE ByTimeText(_)
\* l[np.argsort(l[:,0])]: the rows sorted by the time as a string
ByTimeText(S) ==
    IF S = {} THEN <<>>
    ELSE LET e == CHOOSE x \in S : \A y \in S : ~TextBefore(y.time, x.time)
         IN <<e>> \o ByTimeText(S \ {e})

\* generateVTKSeries after the loop of redoVTKSeriesNoLog
generateVTKSeries(d, rows, lastTime) ==
    IF d.manifest.exists /\ d.manifest.mtime > lastTime THEN d
    ELSE IF rows = {} THEN d
    ELSE Tick([d EXCEPT !.manifest =
                  [exists |-> TRUE, entries |-> ByTimeText(rows), mtime |-> d.now]])

\* redoVTKSeriesNoLog
redoVTKSeriesNoLog(d) ==
    IF caseFolder(d) = "" \/ ~d.vtk THEN d
    ELSE LET lastTime == IF d.snaps = {} THEN 0
                         ELSE SetMax({f.mtime : f \in d.snaps})
             d1 == ReadAll(d)
             rows == {[label |-> f.label, time |-> f.time] : f \in
                         {g \in d1.snaps : Len(g.label) > 0 /\ Len(g.time) > 0}}
         IN generateVTKSeries(d1, rows, lastTime)

\* series(folder): the disk after the call; the file found is its manifest
series(d) ==
    IF HasVTK(d) /\ ~d.manifest.exists THEN redoVTKSeriesNoLog(d) ELSE d

\* the times of the lines of the series file
SeriesTimes(d) ==
    IF HasVTK(d) /\ d.manifest.exists
    THEN [i \in DOMAIN d.manifest.entries |-> Float(d.manifest.entries[i].time)]
    ELSE <<>>

\* parseVTKSeries: the list returned and the disk it leaves
parseVTKSeries(d) ==
    LET d1 == series(d)
        times == SeriesTimes(d1)
    IN [times |-> times,
        disk |-> IF Len(times) < vtkFiles(d1) THEN redoVTKSeriesNoLog(d1) ELSE d1]

\* timesFromFolder for one order of os.listdir
timesFromFolder(listing) ==
    LET RECURSIVE Scan(_)
        Scan(l) == IF l = <<>> THEN <<>>
                   ELSE IF IsFloat(Head(l)) THEN <<Float(Head(l))>> \o Scan(Tail(l))
                   ELSE Scan(Tail(l))
    IN Scan(listing)

\* a choice that prefers the folder list also when the counts are equal
TimesChoiceOnTie(t1, t2) == IF Len(t1) >= Len(t2) THEN t1 ELSE t2
\* lines 247-250 of times
TimesChoice(t1, t2) == IF Len(t1) > Len(t2) THEN t1 ELSE t2

\* the orders in which os.listdir may return the names
Listings(names) ==
    {l \in [1..Cardinality(names) -> names] : \A n \in names : \E i \in DOMAIN l : l[i] = n}

-----------------------------------------------------------------------------
(* One .vtm snapshot file, src/py/folderparser.py:301-355                   *)
(*                                                                         *)
(* The file is the sequence of its lines.  A line is the 'DataSet name='   *)
(* line, which carries the folder label, the 'TimeValue' line, or any      *)
(* other line, which carries its text without the newline.                 *)

ZeroText == <<0>>
DataSetLine(label) == [kind |-> "dataset", txt |-> label]
TimeValueLine == [kind |-> "timevalue", txt |-> <<Letter>>]
OtherLine(txt) == [kind |-> "other", txt |-> txt]

\* line.replace('\n','')
LineText(l) == IF l.kind = "other" THEN l.txt ELSE <<Letter>>

RECURSIVE FirstLine(_, _, _)
\* readline until a line of kind k, starting with line number from; 0 when
\* the end of the file is reached first
FirstLine(file, from, k) ==
    IF from > Len(file) THEN 0
    ELSE IF file[from].kind = k THEN from
    ELSE FirstLine(file, from + 1, k)

\* the number of the 'TimeValue' line found after the 'DataSet name=' line
VtmTimeValueAt(file) ==
    LET di == FirstLine(file, 1, "dataset")
    IN IF di = 0 THEN 0 ELSE FirstLine(file, di, "timevalue")
\* folderlabel: strs[1] of the 'DataSet name=' line, '' without such a line
VtmLabel(file) ==
    LET di == FirstLine(file, 1, "dataset")
    IN IF di = 0 THEN <<>> ELSE file[di].txt
\* time: the line that follows the 'TimeValue' line, '' without one
VtmTime(file) ==
    LET ti == VtmTimeValueAt(file)
    IN IF ti = 0 \/ ti = Len(file) THEN <<>> ELSE LineText(file[ti + 1])

\* a correction that copies every line as it is
correctVTMKeepsTime(file) == file
\* a correction that puts a '0' line after the 'TimeValue' line of every
\* snapshot labelled '0'
correctVTMInserts(file) ==
    LET ti == VtmTimeValueAt(file)
    IN IF ti # 0 /\ VtmLabel(file) = ZeroText
       THEN SubSeq(file, 1, ti) \o <<OtherLine(ZeroText)>>
                \o SubSeq(file, ti + 1, Len(file))
       ELSE file
\* correctVTM: the text st that exportFile writes back to the file
correctVTM(file) ==
    LET ti == VtmTimeValueAt(file)
    IN IF ti # 0 /\ VtmLabel(file) = ZeroText /\ VtmTime(file) # ZeroText
       THEN IF ti = Len(file) THEN Append(file, OtherLine(ZeroText))
            ELSE [file EXCEPT ![ti + 1] = OtherLine(ZeroText)]
       ELSE file

\* readVTM: the pair returned, the file it leaves, whether it was written
readVTM(file) ==
    IF VtmLabel(file) = ZeroText /\ VtmTime(file) # ZeroText
    THEN [label |-> VtmLabel(file), time |-> ZeroText,
          file |-> correctVTM(file), wrote |-> TRUE]
    ELSE [label |-> VtmLabel(file), time |-> VtmTime(file),
          file |-> file, wrote |-> FALSE]

-----------------------------------------------------------------------------
(* The .series file under generateVTKSeries and exportFile,                 *)
(* src/py/folderparser.py:358-392, 444-453, read by parseVTKSeries 213-218  *)
(*                                                                         *)
(* The file is the sequence of its lines: 0 for the opening lines, -1 for  *)
(* the closing lines, and one number per entry, which tells its position   *)
(* and whether it is the last one (the last line carries no comma).        *)

\* the line of entry i in a text of n entries
SeriesRow(i, n) == 10 * i + (IF i = n THEN 1 ELSE 0)
\* st of generateVTKSeries for n (time, folder) pairs
SeriesText(n) == <<0>> \o [i \in 1..n |-> SeriesRow(i, n)] \o <<-1>>
\* File_object.close(): the buffered text goes to the start of the file
Flush(text, file) == text \o SubSeq(file, Len(text) + 1, Len(file))

-----------------------------------------------------------------------------
(* Slice summaries, src/py/interfacemetrics.py:34-64, 400-544               *)
(*                                                                         *)
(* Lengths are integers in units of 0.1 mm, speeds in mm/s, times in       *)
(* tenths of a second; normalized quantities and ratios are in hundredths. *)

\* the fields folderStats reads from legend.csv
Legend2 == [ncx |-> 0, niw |-> 6, nt |-> 2, nbz |-> 0, bv |-> 10]
\* folderStats.__init__: the derived fields
folderStats(le) ==
    [ncx |-> le.ncx, niw |-> le.niw, bv |-> le.bv,
     nre |-> le.ncx + le.niw \div 2 + le.nt,
     behind |-> le.ncx + le.niw \div 2 + le.nt + le.niw,
     intentzbot |-> le.nbz - le.niw]

\* not-a-number, as a division by zero leaves it in a record
NaN == -999999
Ratio(a, b) == IF b = 0 THEN NaN ELSE (100 * a) \div b

\* centroidAndArea for a slice that holds the corners of its bounding box:
\* the convex hull is the box
centroidAndArea(sli) ==
    LET ys == {p.y : p \in sli}
        zs == {p.z : p \in sli}
    IN [centery |-> (SetMin(ys) + SetMax(ys)) \div 2,
        centerz |-> (SetMin(zs) + SetMax(zs)) \div 2,
        area |-> (SetMax(ys) - SetMin(ys)) * (SetMax(zs) - SetMin(zs))]

\* the error value ev, that every field of rv starts from
ErrorValue == -100

\* a summary that keeps a slice of zero height or width
sliceSummaryKeepsFlat(fs, sli) ==
    IF sli = {} \/ Cardinality(sli) < 10
    THEN [raised |-> TRUE, rv |-> [x |-> ErrorValue]]
    ELSE LET first == CHOOSE p \in sli : TRUE
             ca == centroidAndArea(sli)
             zmin == SetMin({p.z : p \in sli})
             maxheight == SetMax({p.z : p \in sli}) - zmin
             maxwidth == SetMax({p.y : p \in sli}) - SetMin({p.y : p \in sli})
             speed == SumOf(sli, "vx") \div Cardinality(sli)
         IN [raised |-> FALSE,
             rv |-> [x |-> first.x, xbehind |-> first.x - fs.ncx,
                     time |-> first.time,
                     centery |-> ca.centery, centerz |-> ca.centerz,
                     area |-> ca.area,
                     maxheight |-> maxheight, maxwidth |-> maxwidth,
                     centeryn |-> Ratio(ca.centery, fs.niw),
                     centerzn |-> Ratio(ca.centerz, fs.niw),
                     arean |-> Ratio(4000 * ca.area, 3142 * fs.niw * fs.niw),
                     maxheightn |-> Ratio(maxheight, fs.niw),
                     maxwidthn |-> Ratio(maxwidth, fs.niw),
                     vertdisp |-> zmin - fs.intentzbot,
                     vertdispn |-> Ratio(zmin - fs.intentzbot, fs.niw),
                     aspectratio |-> ErrorValue,
                     speed |-> speed, speeddecay |-> Ratio(speed, fs.bv)]]

\* sliceSummary: raised is TRUE for the three exceptions, rv is the record
sliceSummary(fs, sli) ==
    IF sli = {} \/ Cardinality(sli) < 10
    THEN [raised |-> TRUE, rv |-> [x |-> ErrorValue]]
    ELSE LET first == CHOOSE p \in sli : TRUE
             ca == centroidAndArea(sli)
             zmin == SetMin({p.z : p \in sli})
             maxheight == SetMax({p.z : p \in sli}) - zmin
             maxwidth == SetMax({p.y : p \in sli}) - SetMin({p.y : p \in sli})
             speed == SumOf(sli, "vx") \div Cardinality(sli)
         IN IF maxheight = 0 \/ maxwidth = 0
            THEN [raised |-> TRUE, rv |-> [x |-> ErrorValue]]
            ELSE [raised |-> FALSE,
                  rv |-> [x |-> first.x, xbehind |-> first.x - fs.ncx,
                          time |-> first.time,
                          centery |-> ca.centery, centerz |-> ca.centerz,
                          area |-> ca.area,
                          maxheight |-> maxheight, maxwidth |-> maxwidth,
                          centeryn |-> Ratio(ca.centery, fs.niw),
                          centerzn |-> Ratio(ca.centerz, fs.niw),
                          arean |-> Ratio(4000 * ca.area, 3142 * fs.niw * fs.niw),
                          maxheightn |-> Ratio(maxheight, fs.niw),
                          maxwidthn |-> Ratio(maxwidth, fs.niw),
                          vertdisp |-> zmin - fs.intentzbot,
                          vertdispn |-> Ratio(zmin - fs.intentzbot, fs.niw),
                          aspectratio |-> Ratio(maxheight, maxwidth),
                          speed |-> speed, speeddecay |-> Ratio(speed, fs.bv)]]

\* positions at the threshold kept as well
XBeyondOrAt(data, behind) == {x \in {p.x : p \in data} : x >= behind}
\* xlist[xlist>fs.behind]
XBeyond(data, behind) == {x \in {p.x : p \in data} : x > behind}

RECURSIVE SlicesOfFile(_, _, _)
\* lines 475-483: the loop over the positions of one file
SlicesOfFile(fs, data, xlist) ==
    IF xlist = <<>> THEN <<>>
    ELSE LET sli == {p \in data : p.x = Head(xlist)}
             r == sliceSummary(fs, sli)
         IN (IF Cardinality(sli) > 9 /\ ~r.raised THEN <<r.rv>> ELSE <<>>)
                \o SlicesOfFile(fs, data, Tail(xlist))

RECURSIVE SlicesOfFiles(_, _, _)
\* lines 466-483: the loop over the files, in the order of os.listdir
SlicesOfFiles(fs, files, listing) ==
    IF listing = <<>> THEN <<>>
    ELSE LET data == files[Head(listing)]
         IN (IF data # {}
             THEN SlicesOfFile(fs, data, SortedSeq(XBeyond(data, fs.behind)))
             ELSE <<>>)
                \o SlicesOfFiles(fs, files, Tail(listing))

\* dropna: the rows without a not-a-number
NoNaN(rv) == \A c \in DOMAIN rv : rv[c] # NaN
dropna(rows) == SelectSeq(rows, NoNaN)

\* summarizeSlices: raised for 'No interface points'
summarizeSlices(fs, d, listing) ==
    IF ~d.ip THEN [raised |-> TRUE, rows |-> <<>>]
    ELSE IF listing = <<>> THEN [raised |-> FALSE, rows |-> <<>>]
    ELSE [raised |-> FALSE, rows |-> dropna(SlicesOfFiles(fs, d.files, listing))]

\* the order of sort_values(by=['time', 'x'])
TimeXBefore(r1, r2) ==
    r1.time < r2.time \/ (r1.time = r2.time /\ r1.x < r2.x)

RECURSIVE InsertRow(_, _)
InsertRow(sorted, r) ==
    IF sorted = <<>> THEN <<r>>
    ELSE IF TimeXBefore(r, Head(sorted)) THEN <<r>> \o sorted
    ELSE <<Head(sorted)>> \o InsertRow(Tail(sorted), r)

RECURSIVE SortByTimeX(_)
\* sort_values(by=['time', 'x']); rows of equal time and x keep their order
SortByTimeX(rows) ==
    IF rows = <<>> THEN <<>>
    ELSE InsertRow(SortByTimeX(SubSeq(rows, 1, Len(rows) - 1)), rows[Len(rows)])

\* fp.caseFolder(folder) names an existing folder
Recognised(d) == d.constant \/ d.legend \/ d.ip

NoSummaries == [exists |-> FALSE, rows |-> <<>>]

\* summarize: the value returned ("None" for the bare return of line 508),
\* what summarizeSlices returned, and the folder it leaves; the rows of
\* sliceSummaries.csv are those below the units row
summarize(d, overwrite, listing) ==
    LET notCalled == [called |-> FALSE, raised |-> FALSE, rows |-> <<>>]
    IN
    IF ~Recognised(d) THEN [ret |-> "None", raw |-> notCalled, sim |-> d]
    ELSE IF d.saved.exists /\ ~overwrite THEN [ret |-> "0", raw |-> notCalled, sim |-> d]
    ELSE IF ~d.legend THEN [ret |-> "1", raw |-> notCalled, sim |-> d]
    ELSE LET r == summarizeSlices(folderStats(Legend2), d, listing)
             raw == [called |-> TRUE, raised |-> r.raised, rows |-> r.rows]
         IN IF r.raised THEN [ret |-> "1", raw |-> raw, sim |-> d]
            ELSE IF Len(r.rows) > 0
            THEN [ret |-> "0", raw |-> raw,
                  sim |-> [d EXCEPT !.saved =
                              [exists |-> TRUE, rows |-> SortByTimeX(r.rows)]]]
            ELSE [ret |-> "1", raw |-> raw,
                  sim |-> [d EXCEPT !.saved = [exists |-> TRUE, rows |-> <<>>]]]

-----------------------------------------------------------------------------
(* steadyMetric, steadyMetrics, sumAndSteady,                               *)
(* src/py/interfacemetrics.py:685-760                                       *)
(*                                                                         *)
(* The two steady tables of a folder are steadyTimes.csv (st) and           *)
(* steadyPositions.csv (sp); each holds the table steadyList returned.      *)

NoTable == [exists |-> FALSE, tab |-> [units |-> FALSE, rows |-> <<>>]]
NoTables == [st |-> NoTable, sp |-> NoTable]

\* pSS(folder): the rows of sliceSummaries.csv as steadyList reads them,
\* times in s and positions in mm
pSS(d) ==
    {[time |-> TimeVal(d.saved.rows[i].time),
      xbehind |-> d.saved.rows[i].xbehind * (Unit \div 10),
      vertdispn |-> d.saved.rows[i].vertdispn] : i \in DOMAIN d.saved.rows}

\* steadyMetric: mode 0 for steadyTimes.csv, 1 for steadyPositions.csv;
\* readOk tells whether pSS returned, raised is the re-raised exception
steadyMetric(d, tb, m, overwrite, readOk) ==
    LET fn == IF m = 0 THEN "st" ELSE "sp"
        md == IF m = 0 THEN "xbehind" ELSE "time"
    IN IF ~tb[fn].exists \/ overwrite
       THEN IF d.saved.exists /\ readOk
            THEN [raised |-> FALSE,
                  tables |-> [tb EXCEPT ![fn] =
                                 [exists |-> TRUE,
                                  tab |-> steadyList(pSS(d), Unit, 1, md)]],
                  wrote |-> {fn}]
            ELSE [raised |-> TRUE, tables |-> tb, wrote |-> {}]
       ELSE [raised |-> FALSE, tables |-> tb, wrote |-> {}]

\* steadyMetrics: reads[1] and reads[2] are the outcomes of the two reads
steadyMetrics(d, tb, overwrite, reads) ==
    IF ~Recognised(d) THEN [ret |-> "None", tables |-> tb, wrote |-> {}]
    ELSE LET m0 == steadyMetric(d, tb, 0, overwrite, reads[1])
         IN IF m0.raised THEN [ret |-> "1", tables |-> tb, wrote |-> {}]
            ELSE LET m1 == steadyMetric(d, m0.tables, 1, overwrite, reads[2])
                 IN IF m1.raised
                    THEN [ret |-> "1", tables |-> m0.tables, wrote |-> m0.wrote]
                    ELSE [ret |-> "0", tables |-> m1.tables,
                          wrote |-> m0.wrote \cup m1.wrote]

\* a sumAndSteady that goes on to the steady tables whatever summarize returned
sumAndSteadyIgnoresSret(d, tb, overwrite, listing, reads) ==
    IF ~overwrite /\ d.saved.exists /\ tb.st.exists /\ tb.sp.exists
    THEN [sim |-> d, tables |-> tb, sret |-> "skipped", wrote |-> {}]
    ELSE IF ~d.ip
    THEN [sim |-> d, tables |-> tb, sret |-> "skipped", wrote |-> {}]
    ELSE LET s == summarize(d, overwrite, listing)
             ssw == IF s.raw.called /\ ~s.raw.raised THEN {"ss"} ELSE {}
             m == steadyMetrics(s.sim, tb, overwrite, reads)
         IN [sim |-> s.sim, tables |-> m.tables, sret |-> s.ret,
             wrote |-> ssw \cup m.wrote]

\* sumAndSteady: the folder and the tables it leaves, what summarize
\* returned ("skipped" when it was not called) and the files written
sumAndSteady(d, tb, overwrite, listing, reads) ==
    IF ~overwrite /\ d.saved.exists /\ tb.st.exists /\ tb.sp.exists
    THEN [sim |-> d, tables |-> tb, sret |-> "skipped", wrote |-> {}]
    ELSE IF ~d.ip
    THEN [sim |-> d, tables |-> tb, sret |-> "skipped", wrote |-> {}]
    ELSE LET s == summarize(d, overwrite, listing)
             ssw == IF s.raw.called /\ ~s.raw.raised THEN {"ss"} ELSE {}
         IN IF s.ret = "0"
            THEN LET m == steadyMetrics(s.sim, tb, overwrite, reads)
                 IN [sim |-> s.sim, tables |-> m.tables, sret |-> s.ret,
                     wrote |-> ssw \cup m.wrote]
            ELSE [sim |-> s.sim, tables |-> tb, sret |-> s.ret, wrote |-> ssw]

-----------------------------------------------------------------------------
(* Specifications.  Each one drives one component and holds the variables  *)
(* of the others at their initial values.                                  *)

SteadyIdle ==
    /\ ss = {} /\ mode = "xbehind" /\ dother = Unit /\ vdcrit = 0
    /\ steadyPc = "input"
    /\ steadyOut = [units |-> FALSE, rows |-> <<>>]

TrackIdle ==
    /\ trk = NewSurvival(0, 0)
    /\ presented = <<>>
    /\ prevTrk = NewSurvival(0, 0)

CalcIdle ==
    /\ df = {} /\ dr = 50 /\ fcrit = 9 /\ calcPc = "input"
    /\ rzOut = [isDict |-> FALSE, rz |-> <<>>]
    /\ rateOut = [defined |-> FALSE, val |-> 0]

NoManifest == [exists |-> FALSE, entries |-> <<>>, mtime |-> 0]
EmptyDisk ==
    [layout |-> "none", names |-> {}, vtk |-> FALSE, snaps |-> {},
     manifest |-> NoManifest, now |-> 1]

TimesIdle ==
    /\ disk = EmptyDisk /\ prevDisk = EmptyDisk
    /\ calls = 0
    /\ timesRet = [raised |-> FALSE, val |-> <<>>]
    /\ timesT1 = <<>> /\ timesT2 = <<>>

VtmIdle ==
    /\ vtmOrig = <<>> /\ vtmFile = <<>> /\ vtmPrev = <<>>
    /\ vtmRet = [label |-> <<>>, time |-> <<>>]
    /\ vtmPrevRet = [label |-> <<>>, time |-> <<>>]
    /\ vtmOps = <<>>
    /\ vtmWrote = FALSE

WriterIdle ==
    /\ wpc = [p \in {1, 2} |-> "start"]
    /\ wtext = [p \in {1, 2} |-> 0]
    /\ mfile = SeriesText(1)
    /\ rsaw = SeriesText(1)

NoFolder ==
    [constant |-> FALSE, legend |-> FALSE, ip |-> FALSE, files |-> <<>>,
     saved |-> NoSummaries]

NoPipeCall ==
    [pc |-> "input", overwrite |-> FALSE, sret |-> "skipped", wrote |-> {},
     before |-> [saved |-> NoSummaries, tables |-> NoTables]]

SliceIdle ==
    /\ sim = NoFolder
    /\ sumPc = "input"
    /\ sumRet = "None"
    /\ ssRaw = [called |-> FALSE, raised |-> FALSE, rows |-> <<>>]
    /\ sumOverwrite = FALSE
    /\ sumPrevRet = "None"
    /\ tables = NoTables
    /\ pipe = NoPipeCall

(* the steady-state detector *)


DotherVals == {Unit, 3 * Unit}
VdcritVals == {0, 2}

SteadyInit ==
    /\ mode \in {"xbehind", "time"}
    /\ ss \in SubsetsUpTo(RowDomain(mode), MaxRows)
    /\ dother \in DotherVals
    /\ vdcrit \in VdcritVals
    /\ steadyPc = "input"
    /\ steadyOut = [units |-> FALSE, rows |-> <<>>]

\* steadyTime(folder, dt, vdcrit, col)
steadyTime ==
    /\ steadyPc = "input"
    /\ mode = "xbehind"
    /\ steadyOut' = steadyList(ss, dother, vdcrit, "xbehind")
    /\ steadyPc' = "done"
    /\ UNCHANGED <<ss, mode, dother, vdcrit>>
    /\ UNCHANGED <<trackVars, calcVars, timesVars, vtmVars, writerVars, sliceVars>>

\* steadyPos(folder, dx, vdcrit, col)
steadyPos ==
    /\ steadyPc = "input"
    /\ mode = "time"
    /\ steadyOut' = steadyList(ss, dother, vdcrit, "time")
    /\ steadyPc' = "done"
    /\ UNCHANGED <<ss, mode, dother, vdcrit>>
    /\ UNCHANGED <<trackVars, calcVars, timesVars, vtmVars, writerVars, sliceVars>>

SteadyNext == steadyTime \/ steadyPos

InitSteady ==
    SteadyInit /\ TrackIdle /\ CalcIdle /\ TimesIdle /\ VtmIdle /\ WriterIdle /\ SliceIdle

SpecSteady == InitSteady /\ [][SteadyNext]_vars

(* the steady-state detector on a case written every 0.0125 s *)

MaxFineRows == 3             \* rows of the table
MaxFineScan == 2             \* write times are indexed 0..MaxFineScan

\* a write interval of 0.0125 s
FineTimeVal(k) == k * 1250

FineRowDomain ==
    [time : {FineTimeVal(k) : k \in 0..MaxFineScan},
     xbehind : {XVal(g) : g \in 0..(NumGroups-1)},
     vertdispn : {10, 11}]

SteadyFineInit ==
    /\ mode \in {"xbehind", "time"}
    /\ ss \in SubsetsUpTo(FineRowDomain, MaxFineRows)
    /\ dother \in DotherVals
    /\ vdcrit \in VdcritVals
    /\ steadyPc = "input"
    /\ steadyOut = [units |-> FALSE, rows |-> <<>>]

InitSteadyFine ==
    SteadyFineInit /\ TrackIdle /\ CalcIdle /\ TimesIdle /\ VtmIdle /\ WriterIdle /\ SliceIdle

SpecSteadyFine == InitSteadyFine /\ [][SteadyNext]_vars

(* one survival object under a sequence of addStep calls *)

MaxSteps == 4                \* addStep calls on the object
MaxPlane == 3                \* axial planes are indexed 0..MaxPlane

AVals == {-1, 0, 1}          \* a = -0.01, 0, 0.01
MaguVals == {1, 5, 100}
TauVals == {0, 100}
XVals == {0, 40}

\* the averaged rows survivalCalc hands over: one per plane, z ascending
StepRows ==
    [z : {10 * k : k \in 0..MaxPlane}, x : XVals, magu : MaguVals,
     shearstressmag : TauVals]

TrackInit ==
    /\ \E a \in AVals : trk = NewSurvival(0, a) /\ prevTrk = NewSurvival(0, a)
    /\ presented = <<>>

\* rz[rbar].addStep(row)
AddStep ==
    /\ Len(presented) < MaxSteps
    /\ \E row \in StepRows :
          /\ presented # <<>> => row.z > Last(presented).z
          /\ trk' = addStep(trk, row)
          /\ presented' = Append(presented, row)
          /\ prevTrk' = trk
    /\ UNCHANGED <<steadyVars, calcVars, timesVars, vtmVars, writerVars, sliceVars>>

TrackNext == AddStep

InitTrack ==
    TrackInit /\ SteadyIdle /\ CalcIdle /\ TimesIdle /\ VtmIdle /\ WriterIdle /\ SliceIdle

SpecTrack == InitTrack /\ [][TrackNext]_vars

(* survivalCalc on one point cloud *)

MaxPts == 3                  \* points of the cloud
NumPlanes == 3               \* axial positions of the points

CalcA == 1                   \* a = 10**-2, the default of survivalCalc
DrVals == {50}               \* dr = 0.5: the bins 0 and 0.5
FcritVals == {5, 9}          \* fcrit = 0.5 and the default 0.9

PointDomain ==
    [x : {-3}, y : {0, 5}, z : {10 * k : k \in 1..NumPlanes},
     rbar : {40, 60}, magu : {0, 10, 100}, shearstressmag : {100}]

CalcInit ==
    /\ df \in SubsetsUpTo(PointDomain, MaxPts)
    /\ dr \in DrVals
    /\ fcrit \in FcritVals
    /\ calcPc = "input"
    /\ rzOut = [isDict |-> FALSE, rz |-> <<>>]
    /\ rateOut = [defined |-> FALSE, val |-> 0]

\* survivalCalc(folder, time, a, b, c, zunits, dr, fcrit)
SurvivalCalc ==
    /\ calcPc = "input"
    /\ rzOut' = survivalCalc(df, CalcA, dr, fcrit)
    /\ calcPc' = "done"
    /\ UNCHANGED <<df, dr, fcrit, rateOut>>
    /\ UNCHANGED <<steadyVars, trackVars, timesVars, vtmVars, writerVars, sliceVars>>

\* survivalRateRZ(rz, dr) on the returned mapping
SurvivalRateRZ ==
    /\ calcPc = "done"
    /\ rateOut' = survivalRateRZ(rzOut.rz, dr)
    /\ calcPc' = "rated"
    /\ UNCHANGED <<df, dr, fcrit, rzOut>>
    /\ UNCHANGED <<steadyVars, trackVars, timesVars, vtmVars, writerVars, sliceVars>>

CalcNext == SurvivalCalc \/ SurvivalRateRZ

InitCalc ==
    CalcInit /\ SteadyIdle /\ TrackIdle /\ TimesIdle /\ VtmIdle /\ WriterIdle /\ SliceIdle

SpecCalc == InitCalc /\ [][CalcNext]_vars

(* one simulation folder: the solver writes, times() is called *)

MaxCalls == 2                \* times() calls
MaxSnaps == 3                \* snapshot files the solver writes
MaxNames == 3                \* names in the case folder
MaxClock == 4                \* file writes on the disk

\* names of the case folder: '0', '0.1', '2', '10' and 'constant'
NameDomain == {<<0>>, <<0, Dot, 1>>, <<2>>, <<1, 0>>, <<Letter>>}

\* .vtm snapshots: label and embedded time; the second one is the initial
\* state saved with a wrong time
SnapDomain ==
    {[label |-> <<0>>, time |-> <<0>>],
     [label |-> <<0>>, time |-> <<2>>],
     [label |-> <<5, 0>>, time |-> <<0, Dot, 1>>],
     [label |-> <<1, 0, 0, 0>>, time |-> <<2>>],
     [label |-> <<5, 0, 0, 0>>, time |-> <<1, 0>>]}

TimesInit ==
    /\ \E lay \in {"none", "case", "flat"} : \E v \in BOOLEAN :
       \E ns \in SubsetsUpTo(NameDomain, MaxNames) :
          /\ lay = "none" => (~v /\ ns = {})
          /\ disk = [EmptyDisk EXCEPT !.layout = lay, !.vtk = v, !.names = ns]
    /\ prevDisk = EmptyDisk
    /\ calls = 0
    /\ timesRet = [raised |-> FALSE, val |-> <<>>]
    /\ timesT1 = <<>> /\ timesT2 = <<>>

\* the solver (foamToVTK) writes one more snapshot file into the VTK folder
SolverWritesSnapshot ==
    /\ HasVTK(disk)
    /\ Cardinality(disk.snaps) < MaxSnaps
    /\ \E f \in SnapDomain :
          /\ \A g \in disk.snaps : g.label # f.label
          /\ disk' = Tick([disk EXCEPT !.snaps = @ \cup
                 {[label |-> f.label, time |-> f.time, mtime |-> disk.now]}])
    /\ UNCHANGED <<calls, timesRet, timesT1, timesT2, prevDisk>>
    /\ UNCHANGED <<steadyVars, trackVars, calcVars, vtmVars, writerVars, sliceVars>>

\* times(folder)
Times ==
    /\ calls < MaxCalls
    /\ calls' = calls + 1
    /\ prevDisk' = disk
    /\ IF caseFolder(disk) = ""
       THEN \* os.listdir('') raises inside timesFromFolder
            /\ timesRet' = [raised |-> TRUE, val |-> <<>>]
            /\ UNCHANGED <<disk, timesT1, timesT2>>
       ELSE \E listing \in Listings(disk.names) :
              LET t1 == timesFromFolder(listing)
                  p == parseVTKSeries(disk)
              IN /\ timesT1' = t1
                 /\ timesT2' = p.times
                 /\ disk' = p.disk
                 /\ timesRet' = [raised |-> FALSE, val |-> TimesChoice(t1, p.times)]
    /\ UNCHANGED <<steadyVars, trackVars, calcVars, vtmVars, writerVars, sliceVars>>

\* the solver (foamToVTK run again) writes an existing snapshot file anew
SolverRewritesSnapshot ==
    /\ HasVTK(disk)
    /\ disk.now < MaxClock
    /\ \E f \in disk.snaps :
          disk' = Tick([disk EXCEPT !.snaps = (@ \ {f}) \cup
                           {[f EXCEPT !.mtime = disk.now]}])
    /\ UNCHANGED <<calls, timesRet, timesT1, timesT2, prevDisk>>
    /\ UNCHANGED <<steadyVars, trackVars, calcVars, vtmVars, writerVars, sliceVars>>

TimesNext == SolverWritesSnapshot \/ SolverRewritesSnapshot \/ Times

InitTimes ==
    TimesInit /\ SteadyIdle /\ TrackIdle /\ CalcIdle /\ VtmIdle /\ WriterIdle /\ SliceIdle

SpecTimes == InitTimes /\ [][TimesNext]_vars

(* one .vtm file under readVTM and correctVTM *)

MaxLines == 4                \* lines of the file
MaxVtmCalls == 3             \* calls on the file

\* the labels '0' and '50', the time lines '0' and '2', and some other line
LineDomain ==
    {DataSetLine(<<0>>), DataSetLine(<<5, 0>>), TimeValueLine,
     OtherLine(<<0>>), OtherLine(<<2>>), OtherLine(<<Letter>>)}

VtmInit ==
    /\ \E n \in 0..MaxLines : vtmFile \in [1..n -> LineDomain]
    /\ vtmPrev = vtmFile
    /\ vtmOrig = vtmFile
    /\ vtmRet = [label |-> <<>>, time |-> <<>>]
    /\ vtmPrevRet = [label |-> <<>>, time |-> <<>>]
    /\ vtmOps = <<>>
    /\ vtmWrote = FALSE

\* readVTM(file)
ReadVTM ==
    /\ Len(vtmOps) < MaxVtmCalls
    /\ LET r == readVTM(vtmFile)
       IN /\ vtmFile' = r.file
          /\ vtmRet' = [label |-> r.label, time |-> r.time]
          /\ vtmWrote' = r.wrote
    /\ vtmPrev' = vtmFile
    /\ vtmPrevRet' = vtmRet
    /\ vtmOps' = Append(vtmOps, "read")
    /\ UNCHANGED vtmOrig
    /\ UNCHANGED <<steadyVars, trackVars, calcVars, timesVars, writerVars, sliceVars>>

\* correctVTM(file)
CorrectVTM ==
    /\ Len(vtmOps) < MaxVtmCalls
    /\ vtmFile' = correctVTM(vtmFile)
    /\ vtmWrote' = TRUE
    /\ vtmPrev' = vtmFile
    /\ vtmOps' = Append(vtmOps, "correct")
    /\ UNCHANGED <<vtmOrig, vtmRet, vtmPrevRet>>
    /\ UNCHANGED <<steadyVars, trackVars, calcVars, timesVars, writerVars, sliceVars>>

VtmNext == ReadVTM \/ CorrectVTM

InitVtm ==
    VtmInit /\ SteadyIdle /\ TrackIdle /\ CalcIdle /\ TimesIdle /\ WriterIdle /\ SliceIdle

SpecVtm == InitVtm /\ [][VtmNext]_vars

(* two processes regenerate the manifest of one folder, a third reads it *)

MaxEntries == 3              \* snapshot files a process may find

Procs == {1, 2}

\* the texts generateVTKSeries can write
SeriesTexts == {SeriesText(n) : n \in 1..MaxEntries}

WriterInit ==
    /\ wpc = [p \in Procs |-> "start"]
    /\ wtext = [p \in Procs |-> 0]
    /\ mfile \in SeriesTexts
    /\ rsaw = mfile

\* redoVTKSeriesNoLog and generateVTKSeries up to the call of exportFile:
\* the process lists the snapshot files and builds st, unless it finds a
\* .series file newer than the snapshot files
BuildText(p) ==
    /\ wpc[p] = "start"
    /\ IF \E q \in Procs : wpc[q] = "closed"
       THEN /\ wpc' = [wpc EXCEPT ![p] = "uptodate"]
            /\ UNCHANGED wtext
       ELSE \E n \in 1..MaxEntries :
               /\ wtext' = [wtext EXCEPT ![p] = n]
               /\ wpc' = [wpc EXCEPT ![p] = "built"]
    /\ UNCHANGED <<mfile, rsaw>>
    /\ UNCHANGED <<steadyVars, trackVars, calcVars, timesVars, vtmVars, sliceVars>>

\* exportFile: open(fn,"w") empties the file
OpenFile(p) ==
    /\ wpc[p] = "built"
    /\ wpc' = [wpc EXCEPT ![p] = "open"]
    /\ mfile' = <<>>
    /\ UNCHANGED <<wtext, rsaw>>
    /\ UNCHANGED <<steadyVars, trackVars, calcVars, timesVars, vtmVars, sliceVars>>

\* exportFile: File_object.write(text) fills the buffer of the process
WriteText(p) ==
    /\ wpc[p] = "open"
    /\ wpc' = [wpc EXCEPT ![p] = "written"]
    /\ UNCHANGED <<wtext, mfile, rsaw>>
    /\ UNCHANGED <<steadyVars, trackVars, calcVars, timesVars, vtmVars, sliceVars>>

\* exportFile: File_object.close() writes the buffer to the file
CloseFile(p) ==
    /\ wpc[p] = "written"
    /\ wpc' = [wpc EXCEPT ![p] = "closed"]
    /\ mfile' = Flush(SeriesText(wtext[p]), mfile)
    /\ UNCHANGED <<wtext, rsaw>>
    /\ UNCHANGED <<steadyVars, trackVars, calcVars, timesVars, vtmVars, sliceVars>>

\* parseVTKSeries of another process reads the lines of the file
ReadSeries ==
    /\ rsaw' = mfile
    /\ UNCHANGED <<wpc, wtext, mfile>>
    /\ UNCHANGED <<steadyVars, trackVars, calcVars, timesVars, vtmVars, sliceVars>>

WriterNext ==
    \/ \E p \in Procs : BuildText(p) \/ OpenFile(p) \/ WriteText(p) \/ CloseFile(p)
    \/ ReadSeries

InitWriter ==
    WriterInit /\ SteadyIdle /\ TrackIdle /\ CalcIdle /\ TimesIdle /\ VtmIdle /\ SliceIdle

SpecWriter == InitWriter /\ [][WriterNext]_vars

(* one simulation folder under summarize *)

MaxFiles == 2                \* files of the interfacePoints folder
MaxSlices == 2               \* axial positions in one file

\* fs.behind of the legend
Behind == folderStats(Legend2).behind
\* axial positions: at the threshold and beyond it
XSlices == {Behind, Behind + 1, Behind + 9}
FileTimes == {0, 1}
\* a slice of 10 points, one of 9, one of height 0, one of width 0
SliceShapes == {"ok", "few", "flat", "thin"}

\* the points of one slice: the corners of its bounding box first, the
\* others at its center
SlicePoints(x, t, shape) ==
    LET n == IF shape = "few" THEN 9 ELSE 10
        w == IF shape = "thin" THEN 0 ELSE 12
        h == IF shape = "flat" THEN 0 ELSE 12
    IN {[id |-> k, x |-> x, time |-> t, vx |-> 10,
         y |-> IF k \in {2, 4} THEN w ELSE IF k > 4 THEN w \div 2 ELSE 0,
         z |-> IF k \in {3, 4} THEN h ELSE IF k > 4 THEN h \div 2 ELSE 0]
           : k \in 1..n}

SliceChoices ==
    UNION {[X -> SliceShapes] :
              X \in {S \in SUBSET XSlices : Cardinality(S) <= MaxSlices}}
\* the tables importPointsFile can return
FileDomain ==
    {UNION {SlicePoints(x, t, ch[x]) : x \in DOMAIN ch} :
        t \in FileTimes, ch \in SliceChoices}

SliceInit ==
    /\ \E k \in 0..MaxFiles : \E fl \in [1..k -> FileDomain] :
       \E co, le, ip, sv \in BOOLEAN :
          /\ k > 0 => ip
          \* a 'constant' folder only matters without legend and points
          /\ (le \/ ip) => ~co
          /\ sim = [constant |-> co, legend |-> le, ip |-> ip, files |-> fl,
                    saved |-> [exists |-> sv, rows |-> <<>>]]
    /\ sumPc = "input"
    /\ sumRet = "None"
    /\ ssRaw = [called |-> FALSE, raised |-> FALSE, rows |-> <<>>]
    /\ sumOverwrite = FALSE
    /\ sumPrevRet = "None"
    /\ tables = NoTables
    /\ pipe = NoPipeCall

\* summarize(folder, overwrite)
Summarize ==
    /\ sumPc = "input"
    /\ pipe.pc = "input"
    /\ \E overwrite \in BOOLEAN : \E listing \in Listings(DOMAIN sim.files) :
          LET r == summarize(sim, overwrite, listing)
          IN /\ sumRet' = r.ret
             /\ ssRaw' = r.raw
             /\ sim' = r.sim
             /\ sumOverwrite' = overwrite
    /\ sumPc' = "done"
    /\ UNCHANGED <<sumPrevRet, tables, pipe>>
    /\ UNCHANGED <<steadyVars, trackVars, calcVars, timesVars, vtmVars, writerVars>>

SliceNext == Summarize

InitSlice ==
    SliceInit /\ SteadyIdle /\ TrackIdle /\ CalcIdle /\ TimesIdle /\ VtmIdle /\ WriterIdle

SpecSlice == InitSlice /\ [][SliceNext]_vars

(* one simulation folder under repeated summarize calls and sumAndSteady *)

MaxPipeFiles == 1            \* files of the interfacePoints folder

\* a steady table left by an earlier run
OldTable == [exists |-> TRUE, tab |-> [units |-> FALSE, rows |-> <<>>]]

PipeInit ==
    /\ \E k \in 0..MaxPipeFiles : \E fl \in [1..k -> FileDomain] :
       \E co, le, ip, sv \in BOOLEAN :
          /\ k > 0 => ip
          /\ (le \/ ip) => ~co
          /\ sim = [constant |-> co, legend |-> le, ip |-> ip, files |-> fl,
                    saved |-> [exists |-> sv, rows |-> <<>>]]
    /\ tables \in [st : {NoTable, OldTable}, sp : {NoTable, OldTable}]
    /\ sumPc = "input"
    /\ sumRet = "None"
    /\ ssRaw = [called |-> FALSE, raised |-> FALSE, rows |-> <<>>]
    /\ sumOverwrite = FALSE
    /\ sumPrevRet = "None"
    /\ pipe = NoPipeCall

\* summarize(folder, overwrite) once more, on the folder the call before left
SummarizeAgain ==
    /\ sumPc = "done"
    /\ pipe.pc = "input"
    /\ \E listing \in Listings(DOMAIN sim.files) :
          LET r == summarize(sim, sumOverwrite, listing)
          IN /\ sumRet' = r.ret
             /\ ssRaw' = r.raw
             /\ sim' = r.sim
    /\ sumPrevRet' = sumRet
    /\ sumPc' = "again"
    /\ UNCHANGED <<sumOverwrite, tables, pipe>>
    /\ UNCHANGED <<steadyVars, trackVars, calcVars, timesVars, vtmVars, writerVars>>

\* sumAndSteady(folder, overwrite)
SumAndSteady ==
    /\ pipe.pc = "input"
    /\ \E overwrite \in BOOLEAN : \E listing \in Listings(DOMAIN sim.files) :
       \E reads \in [1..2 -> BOOLEAN] :
          \E r \in {sumAndSteady(sim, tables, overwrite, listing, reads)} :
             /\ sim' = r.sim
             /\ tables' = r.tables
             /\ pipe' = [pc |-> "done", overwrite |-> overwrite, sret |-> r.sret,
                         wrote |-> r.wrote,
                         before |-> [saved |-> sim.saved, tables |-> tables]]
    /\ UNCHANGED <<sumPc, sumRet, ssRaw, sumOverwrite, sumPrevRet>>
    /\ UNCHANGED <<steadyVars, trackVars, calcVars, timesVars, vtmVars, writerVars>>

PipeNext == Summarize \/ SummarizeAgain \/ SumAndSteady

InitPipe ==
    PipeInit /\ SteadyIdle /\ TrackIdle /\ CalcIdle /\ TimesIdle /\ VtmIdle /\ WriterIdle

SpecPipe == InitPipe /\ [][PipeNext]_vars

-----------------------------------------------------------------------------
(* Properties of the steady-state detector.  The group's observations, its  *)
(* scan values and the range inside a centered window are stated here on    *)
(* the table itself, independently of the loops of steadyList.              *)

GroupVals == {Get(r, mode) : r \in ss}
GroupObs(g) == {r \in ss : Get(r, mode) = g}
ScanVals(g) == {Get(r, Other(mode)) : r \in GroupObs(g)}
\* max(metric) - min(metric) over the observations within dother/2 of v
SpreadAt(g, v) ==
    LET sel == {r.vertdispn : r \in {q \in GroupObs(g) :
                    2 * Get(q, Other(mode)) >= 2 * v - dother
                 /\ 2 * Get(q, Other(mode)) <= 2 * v + dother}}
    IN SetMax(sel) - SetMin(sel)
Qualifying(g) == {v \in ScanVals(g) : SpreadAt(g, v) <= vdcrit}
\* how a group value and a scan value appear in the returned table
ShownGroup(g) == IF mode = "xbehind" THEN Round3(g) ELSE g
ShownScan(v) == IF mode = "xbehind" THEN v ELSE Round3(v)
\* the positions of the returned rows that belong to group g
RowsOfGroup(g) == {i \in DOMAIN steadyOut.rows : steadyOut.rows[i].modevar = ShownGroup(g)}
\* the call went through the loop over the groups
SteadyLooped == steadyPc = "done" /\ steadyOut.units
\* no two rows of the table share their (time, position) pair
NoDuplicatePairs ==
    \A r1, r2 \in ss : (r1.time = r2.time /\ r1.xbehind = r2.xbehind) => r1 = r2

\* C1 (as claimed): for every group a window is reported exactly when some
\* scan value of the group has a centered-window spread within the tolerance,
\* and the reported range-start is the smallest such scan value.  Stated for
\* the tables that hold one row per (time, position) pair.
C1_WindowIffSomeSteadyIndex ==
    (SteadyLooped /\ NoDuplicatePairs) =>
        \A g \in GroupVals :
            /\ (RowsOfGroup(g) # {}) <=> (Qualifying(g) # {})
            /\ \A i \in RowsOfGroup(g) :
                   steadyOut.rows[i].other0 = ShownScan(SetMin(Qualifying(g)))

\* C2 (as claimed): the reported range-end of a window is the smallest scan
\* value after its start whose spread exceeds the tolerance, the last scan
\* value included; the sentinel 1000 is reported only if there is none.
C2_EndIsFirstUnsteadyIndex ==
    SteadyLooped =>
        \A g \in GroupVals : \A i \in RowsOfGroup(g) :
            LET start == CHOOSE v \in ScanVals(g) : ShownScan(v) = steadyOut.rows[i].other0
                exceed == {v \in ScanVals(g) : v > start /\ SpreadAt(g, v) > vdcrit}
            IN steadyOut.rows[i].otherf =
                   IF exceed # {} THEN ShownScan(SetMin(exceed)) ELSE ShownScan(OtherfOpen)

\* C3: at most one window is reported per distinct group value, and it is
\* the first qualifying one: it starts at the smallest steady scan value, and
\* steady scan values after its end add no further row.
C3_OneWindowPerGroup ==
    steadyPc = "done" =>
        \A g \in GroupVals :
            /\ Cardinality(RowsOfGroup(g)) <= 1
            /\ \A i \in RowsOfGroup(g) :
                   steadyOut.rows[i].other0 = ShownScan(SetMin(Qualifying(g)))

\* a group whose window has ended and that is steady again later on
C3_Witness ==
    /\ SteadyLooped
    /\ \E g \in GroupVals : \E i \in RowsOfGroup(g) :
           /\ steadyOut.rows[i].otherf < OtherfOpen
           /\ \E v \in Qualifying(g) : ShownScan(v) > steadyOut.rows[i].otherf
                                       /\ v < SetMax(ScanVals(g))

\* the group of the concrete scenario: metric 0.10, 0.10, 0.11, 0.50 at the
\* scan positions 0, 1, 2, 3
ScanPos(k) == IF mode = "xbehind" THEN TimeVal(k) ELSE XVal(k)
ScenarioGroup(g) ==
    /\ Cardinality(GroupObs(g)) = 4
    /\ \E r \in GroupObs(g) : Get(r, Other(mode)) = ScanPos(0) /\ r.vertdispn = 10
    /\ \E r \in GroupObs(g) : Get(r, Other(mode)) = ScanPos(1) /\ r.vertdispn = 10
    /\ \E r \in GroupObs(g) : Get(r, Other(mode)) = ScanPos(2) /\ r.vertdispn = 11
    /\ \E r \in GroupObs(g) : Get(r, Other(mode)) = ScanPos(3) /\ r.vertdispn = 50
ScenarioCall(g) ==
    steadyPc = "done" /\ vdcrit = 2 /\ dother = Unit /\ ScenarioGroup(g)

\* C4 (as claimed): in the scenario the window of the group starts at 0 and
\* ends at 2.
C4_ScenarioEndsAtTwo ==
    \A g \in GroupVals : ScenarioCall(g) =>
        \E i \in RowsOfGroup(g) :
            /\ steadyOut.rows[i].other0 = 0
            /\ steadyOut.rows[i].otherf = 2 * Unit

\* C4 (amended): in the scenario a window of width 1 holds one observation
\* at every position, so the window of the group starts at 0 and is
\* open-ended: its end is the sentinel 1000.
C4_ScenarioOpenEnded ==
    \A g \in GroupVals : ScenarioCall(g) =>
        /\ RowsOfGroup(g) # {}
        /\ \A i \in RowsOfGroup(g) :
               /\ steadyOut.rows[i].other0 = 0
               /\ steadyOut.rows[i].otherf = OtherfOpen

\* the scenario with a second group beside it
C4_Witness ==
    \E g \in GroupVals :
        /\ ScenarioCall(g)
        /\ Cardinality(GroupVals) = 2
        /\ RowsOfGroup(g) # {}

\* the group has one metric value over all its observations
ConstantGroup(g) == Cardinality({r.vertdispn : r \in GroupObs(g)}) = 1

\* C22 (as claimed): a group whose metric is constant gets a window that
\* starts at the smallest scan value of the group and whose end is not below
\* the largest one, whatever the number of observations of the group.
C22_ConstantGroupCoversRange ==
    SteadyLooped =>
        \A g \in GroupVals : ConstantGroup(g) =>
            /\ RowsOfGroup(g) # {}
            /\ \A i \in RowsOfGroup(g) :
                   /\ steadyOut.rows[i].other0 = ShownScan(SetMin(ScanVals(g)))
                   /\ steadyOut.rows[i].otherf >= ShownScan(SetMax(ScanVals(g)))

\* C23: a table of zero or one observations gives the empty result, in both
\* modes: no units row, no row of any group.
C23_ShortSeriesIsEmpty ==
    (steadyPc = "done" /\ Cardinality(ss) < 2) =>
        steadyOut = [units |-> FALSE, rows |-> <<>>]

\* a call on a table of exactly one observation, steady in position
C23_Witness ==
    /\ steadyPc = "done"
    /\ mode = "time"
    /\ Cardinality(ss) = 1
    /\ steadyOut.rows = <<>>

\* the value has at most three decimals
IsRound3(v) == v = Round3(v)

\* C24 (as claimed): every number of the returned table, the group value,
\* the range-start and the range-end, is rounded to three decimals, in both
\* modes.
C24_EveryOutputRounded ==
    steadyPc = "done" =>
        \A i \in DOMAIN steadyOut.rows :
            /\ IsRound3(steadyOut.rows[i].modevar)
            /\ IsRound3(steadyOut.rows[i].other0)
            /\ IsRound3(steadyOut.rows[i].otherf)

-----------------------------------------------------------------------------
(* Properties of survival.addStep *)

\* the latest call met the discontinuity test of line 646
RejectedCall ==
    /\ Len(presented) >= 2
    /\ 10 * Last(presented).magu < Last(prevTrk.vlist)
\* the number of calls that were rejected so far
RejectedCount == Len(presented) - Len(trk.zlist)

\* C5: a call that rejects its sample as a velocity discontinuity leaves
\* totalI and every history list as they were before the call, and a later
\* sample of the same object that passes the test is recorded.
C5_RejectedStepLeavesTrack ==
    /\ RejectedCall =>
          /\ trk.totalI = prevTrk.totalI
          /\ trk.Ilist = prevTrk.Ilist /\ trk.tlist = prevTrk.tlist
          /\ trk.dtlist = prevTrk.dtlist /\ trk.taulist = prevTrk.taulist
          /\ trk.vlist = prevTrk.vlist
          /\ trk.xlist = prevTrk.xlist /\ trk.zlist = prevTrk.zlist
    /\ (Len(presented) >= 2 /\ ~RejectedCall) =>
          /\ trk.zlist = Append(prevTrk.zlist, Last(presented).z)
          /\ trk.vlist = Append(prevTrk.vlist, Last(presented).magu)
          /\ Len(trk.Ilist) = Len(prevTrk.Ilist) + 1

\* a rejected sample was followed by a recorded one
C5_Witness ==
    /\ Len(presented) >= 4
    /\ RejectedCount >= 1
    /\ ~RejectedCall
    /\ prevTrk.zlist # trk.zlist
    /\ trk.totalI < IScale

\* C6 (as claimed): a sample after the first is rejected exactly when its
\* velocity is below 10% of the velocity of the sample presented to the
\* object immediately before it.
C6_RejectedIffBelowPrevious ==
    Len(presented) >= 2 =>
        ((trk = prevTrk) <=>
            10 * Last(presented).magu < presented[Len(presented) - 1].magu)

\* C8: every step survival applied is at most 1: totalI stays within 0..1,
\* Ilist never increases, and totalI is the last entry of Ilist.
C8_SurvivalBounded ==
    /\ 0 <= trk.totalI /\ trk.totalI <= IScale
    /\ \A i \in 1..(Len(trk.Ilist) - 1) : trk.Ilist[i + 1] <= trk.Ilist[i]
    /\ trk.totalI = Last(trk.Ilist)

\* a step with a negative constant a, whose exp(...) exceeds 1, was recorded
C8_Witness ==
    /\ trk.a < 0
    /\ Len(trk.Ilist) >= 3
    /\ Last(trk.taulist) > 0
    /\ Last(trk.dtlist) > 0

\* the lengths of the seven lists of the object
ListLengths(t) ==
    {Len(t.zlist), Len(t.xlist), Len(t.Ilist), Len(t.tlist), Len(t.dtlist),
     Len(t.taulist), Len(t.vlist)}

\* C30: after one or more addStep calls the lists zlist, xlist, Ilist,
\* tlist, dtlist, taulist and vlist all have the same length, and tlist does
\* not decrease from one entry to the next.
C30_ListsSameLength ==
    presented # <<>> =>
        /\ Cardinality(ListLengths(trk)) = 1
        /\ \A i \in 1..(Len(trk.tlist) - 1) : trk.tlist[i] <= trk.tlist[i+1]

\* four calls of which one was rejected, and time advanced on the last
\* recorded step
C30_Witness ==
    /\ Len(presented) = 4
    /\ Len(trk.zlist) = 3
    /\ trk.tlist[3] > trk.tlist[2]

-----------------------------------------------------------------------------
(* Properties of survivalCalc *)

\* the number of samples recorded for a bin
Recorded(rbar) == Len(TrackOf(df, CalcA, dr, rbar).zlist)

\* C7 (as claimed): a bin is kept in the returned mapping exactly when the
\* number of samples recorded for it is at least fcrit times the number of
\* distinct axial planes, for the fcrit the caller supplied.
C7_KeptIffCoverageAtLeastFcrit ==
    (calcPc # "input" /\ rzOut.isDict) =>
        \A rbar \in Rbarlist(dr) :
            (rbar \in DOMAIN rzOut.rz) <=>
                (10 * Recorded(rbar) >= fcrit * Len(CalcPlanes(df)))

\* survivalCalc returned a mapping
CalcReturned == calcPc # "input" /\ rzOut.isDict
\* the multiple of the bin width nearest to rbar
NearestBin(rbar, binw) == ((2 * rbar + binw) \div (2 * binw)) * binw

\* C25 (as claimed): each point is assigned to the nearest multiple of the
\* bin width, so every sample recorded for a bin comes from a plane that
\* holds a moving point whose nearest multiple is that bin.
C25_BinIsNearestMultiple ==
    CalcReturned =>
        \A rbar \in DOMAIN rzOut.rz : \A i \in DOMAIN rzOut.rz[rbar].zlist :
            \E p \in NozzlePlane(df) :
                /\ p.z = rzOut.rz[rbar].zlist[i]
                /\ p.magu > 0
                /\ NearestBin(p.rbar, dr) = rbar

\* C26: the planes are folded in ascending z and a plane contributes at most
\* one averaged sample to a bin: the zlist of every returned bin is strictly
\* increasing and holds only axial positions of the cloud.
C26_ZlistStrictlyIncreasing ==
    CalcReturned =>
        \A rbar \in DOMAIN rzOut.rz :
            LET zlist == rzOut.rz[rbar].zlist
            IN /\ \A i \in 1..(Len(zlist) - 1) : zlist[i] < zlist[i+1]
               /\ \A i \in DOMAIN zlist : zlist[i] \in {p.z : p \in NozzlePlane(df)}
               /\ Len(zlist) <= Len(CalcPlanes(df))

\* a returned bin with samples from two planes, one of them the average of
\* two points
C26_Witness ==
    /\ CalcReturned
    /\ \E rbar \in DOMAIN rzOut.rz :
           /\ Len(rzOut.rz[rbar].zlist) >= 2
           /\ \E p, q \in NozzlePlane(df) :
                  /\ p # q /\ p.z = q.z
                  /\ p.magu > 0 /\ q.magu > 0
                  /\ RbarBin(p.rbar, dr) = rbar /\ RbarBin(q.rbar, dr) = rbar

\* C29 (as claimed): every bin of the returned mapping has at least one
\* recorded sample, also when the filtered cloud holds no axial plane.
C29_ReturnedBinHasSample ==
    CalcReturned =>
        \A rbar \in DOMAIN rzOut.rz : Len(rzOut.rz[rbar].zlist) >= 1

\* the final survival fractions of the retained bins
FinalSurvivals == {rzOut.rz[rbar].totalI : rbar \in DOMAIN rzOut.rz}

\* C27 (as claimed): the weights rbar^2 - (rbar - dr)^2 are all
\* non-negative, and for a non-empty retained set the rate is defined and
\* lies between the smallest and the largest final survival of the set.
C27_RateIsWeightedMean ==
    (calcPc = "rated" /\ rzOut.isDict /\ DOMAIN rzOut.rz # {}) =>
        /\ \A rbar \in DOMAIN rzOut.rz : RingArea(rbar, dr) >= 0
        /\ rateOut.defined
        /\ rateOut.val >= SetMin(FinalSurvivals)
        /\ rateOut.val <= SetMax(FinalSurvivals)

-----------------------------------------------------------------------------
(* Properties of times *)

\* the latest times() call returned a list
TimesReturned == calls >= 1 /\ ~timesRet.raised
\* the numeric names of the case folder, as floats
FolderTimes(d) == {Float(n) : n \in {m \in d.names : IsFloat(m)}}
\* the (label, time) pairs the snapshot files hold
SnapshotPairs(d) == {[label |-> f.label, time |-> f.time] : f \in d.snaps}

\* C9: times returns the folder-listing list exactly when it has strictly
\* more entries than the manifest-derived list, and the manifest-derived
\* list otherwise; the manifest holds snapshot times only, never the times
\* of the folder listing.
C9_FolderListOnlyIfLonger ==
    TimesReturned =>
        /\ Len(timesT1) = Cardinality(FolderTimes(prevDisk))
        /\ {timesT1[i] : i \in DOMAIN timesT1} = FolderTimes(prevDisk)
        /\ Len(timesT2) =
               IF prevDisk.manifest.exists THEN Len(prevDisk.manifest.entries)
               ELSE IF disk.manifest.exists THEN Len(disk.manifest.entries) ELSE 0
        /\ Len(timesT1) > Len(timesT2) => timesRet.val = timesT1
        /\ Len(timesT1) <= Len(timesT2) => timesRet.val = timesT2
        /\ \A i \in DOMAIN disk.manifest.entries :
               disk.manifest.entries[i] \in SnapshotPairs(disk)

\* both lists have the same length and differ, there is a folder time that
\* no snapshot carries, and the manifest was written during the call
C9_Witness ==
    /\ TimesReturned
    /\ Len(timesT1) = Len(timesT2) /\ timesT1 # timesT2 /\ Len(timesT1) >= 2
    /\ ~prevDisk.manifest.exists /\ disk.manifest.exists
    /\ \E t \in FolderTimes(disk) :
           \A f \in disk.snaps : Float(f.time) # t

\* C10 (as claimed): the sequence times returns is in ascending order of
\* simulation time, from whichever source it is taken.
C10_ReturnedTimesAscending ==
    TimesReturned =>
        \A i \in 1..(Len(timesRet.val) - 1) : timesRet.val[i] <= timesRet.val[i + 1]

\* the manifest of d lists fewer entries than there are snapshot files
FewerEntries(d) ==
    HasVTK(d) /\ d.manifest.exists /\ Len(d.manifest.entries) < Cardinality(d.snaps)
\* some snapshot file of d is newer than the manifest
NewerSnapshot(d) ==
    HasVTK(d) /\ d.manifest.exists /\ \E f \in d.snaps : f.mtime > d.manifest.mtime
\* the latest times() call wrote the manifest
ManifestRewritten ==
    disk.manifest.exists /\ disk.manifest.mtime > prevDisk.manifest.mtime

\* C11 (as claimed): a times() call on a folder whose manifest lists fewer
\* entries than there are snapshot files, or is older than some snapshot
\* file, rewrites the manifest during the call; either condition suffices.
C11_StaleManifestRegenerated ==
    (TimesReturned /\ (FewerEntries(prevDisk) \/ NewerSnapshot(prevDisk)))
        => ManifestRewritten

\* C12 (as claimed): the entries of every manifest on disk are in strictly
\* increasing numeric order of simulation time.
C12_ManifestStrictlyIncreasing ==
    disk.manifest.exists =>
        \A i \in 1..(Len(disk.manifest.entries) - 1) :
            Float(disk.manifest.entries[i].time)
                < Float(disk.manifest.entries[i + 1].time)

\* C13 (as claimed): after a times() call that regenerated the manifest, the
\* manifest and the list the call got from parseVTKSeries both have at least
\* as many entries as there are snapshot files on disk (the call leaves the
\* number of snapshot files as it found it).
C13_RegeneratedListCoversSnapshots ==
    (TimesReturned /\ ManifestRewritten) =>
        /\ Len(disk.manifest.entries) >= vtkFiles(prevDisk)
        /\ Len(timesT2) >= vtkFiles(prevDisk)

\* C17 (as claimed): a times() call on a folder without manifest, snapshot
\* files and numeric sub-directory names returns the empty list and does not
\* raise, also when caseFolder does not recognise the folder.
C17_NoResultsIsEmptyNotError ==
    (calls >= 1 /\ FolderTimes(prevDisk) = {} /\ ~prevDisk.manifest.exists
        /\ prevDisk.snaps = {})
        => timesRet = [raised |-> FALSE, val |-> <<>>]

-----------------------------------------------------------------------------
(* Properties of readVTM and correctVTM *)

\* the latest call was readVTM
LastRead == vtmOps # <<>> /\ Last(vtmOps) = "read"
\* the number of readVTM calls made
ReadCount == Cardinality({i \in DOMAIN vtmOps : vtmOps[i] = "read"})
\* the file holds an embedded time: a line after its 'TimeValue' line
HasTimeLine(file) ==
    VtmTimeValueAt(file) # 0 /\ VtmTimeValueAt(file) < Len(file)

\* C14: readVTM on a snapshot labelled '0' returns the time '0', and if the
\* embedded time was not '0' the file is written back with the time line
\* replaced by '0' and every other line as it was; a snapshot with another
\* label is returned with its embedded time and its file is not written.
C14_ZeroLabelReadsZero ==
    LastRead =>
        /\ VtmLabel(vtmPrev) = ZeroText =>
              /\ vtmRet = [label |-> ZeroText, time |-> ZeroText]
              /\ (HasTimeLine(vtmPrev) /\ VtmTime(vtmPrev) # ZeroText) =>
                    /\ vtmWrote
                    /\ Len(vtmFile) = Len(vtmPrev)
                    /\ VtmTime(vtmFile) = ZeroText
                    /\ \A i \in DOMAIN vtmPrev :
                           i # VtmTimeValueAt(vtmPrev) + 1 => vtmFile[i] = vtmPrev[i]
        /\ VtmLabel(vtmPrev) # ZeroText =>
              /\ vtmRet = [label |-> VtmLabel(vtmPrev), time |-> VtmTime(vtmPrev)]
              /\ vtmFile = vtmPrev
              /\ ~vtmWrote

\* a snapshot labelled '0' with the embedded time '2' and lines around it
\* was read
C14_Witness ==
    /\ LastRead
    /\ VtmLabel(vtmPrev) = ZeroText
    /\ HasTimeLine(vtmPrev) /\ VtmTime(vtmPrev) = <<2>>
    /\ Len(vtmPrev) = MaxLines
    /\ vtmFile # vtmPrev

\* C15: a second application of readVTM or correctVTM leaves the file as
\* the first one left it, and a second readVTM returns the pair the first
\* one returned.
C15_CorrectionIdempotent ==
    Len(vtmOps) >= 2 =>
        /\ vtmFile = vtmPrev
        /\ (LastRead /\ ReadCount >= 2) => vtmRet = vtmPrevRet

\* the first application changed the file, and the file was read twice
C15_Witness ==
    /\ Len(vtmOps) >= 2
    /\ HasTimeLine(vtmOrig) /\ VtmTime(vtmOrig) = <<2>>
    /\ vtmFile # vtmOrig
    /\ LastRead /\ ReadCount >= 2
    /\ vtmRet.time = ZeroText

-----------------------------------------------------------------------------
(* Properties of the .series file under concurrent regeneration *)

\* the process holds the file open for writing
Writing(p) == wpc[p] \in {"open", "written"}

\* C16 (as claimed): two processes that regenerate the manifest of the same
\* folder never hold the file open for writing at the same time, and what a
\* reader gets is always a whole manifest text, never a truncated or mixed
\* one.
C16_ManifestWritersSerialized ==
    /\ \A p, q \in Procs : (Writing(p) /\ Writing(q)) => p = q
    /\ rsaw \in SeriesTexts

-----------------------------------------------------------------------------
(* Properties of sliceSummary, summarizeSlices and summarize *)

\* the call reached summarizeSlices and it returned a table
SlicesSummarized == sumPc = "done" /\ ssRaw.called /\ ~ssRaw.raised
\* the points of file f at the axial position x
GroupOf(f, x) == {p \in sim.files[f] : p.x = x}
HeightOf(sli) == SetMax({p.z : p \in sli}) - SetMin({p.z : p \in sli})
WidthOf(sli) == SetMax({p.y : p \in sli}) - SetMin({p.y : p \in sli})
\* the groups that are to give a record
ValidGroup(f, x) ==
    /\ x > Behind
    /\ Cardinality(GroupOf(f, x)) >= 10
    /\ HeightOf(GroupOf(f, x)) # 0 /\ WidthOf(GroupOf(f, x)) # 0
ValidGroupsAt(t, x) ==
    {f \in DOMAIN sim.files :
        /\ \E p \in GroupOf(f, x) : p.time = t
        /\ ValidGroup(f, x)}
RowsAt(rows, t, x) == {i \in DOMAIN rows : rows[i].time = t /\ rows[i].x = x}

\* C18: summarizeSlices returns exactly one record for each (file, axial
\* position) group that lies strictly beyond fs.behind, holds at least 10
\* points and has non-zero height and width, and none for any other group;
\* the groups that fail take no record of the other groups away.
C18_OneRecordPerValidSlice ==
    SlicesSummarized =>
        /\ \A t \in FileTimes : \A x \in XSlices :
               Cardinality(RowsAt(ssRaw.rows, t, x)) = Cardinality(ValidGroupsAt(t, x))
        /\ \A i \in DOMAIN ssRaw.rows :
               ssRaw.rows[i].time \in FileTimes /\ ssRaw.rows[i].x \in XSlices

\* a file held a valid slice beside a failing one and one at the threshold
C18_Witness ==
    /\ SlicesSummarized
    /\ \E f \in DOMAIN sim.files :
          /\ \E x \in XSlices : ValidGroup(f, x)
          /\ \E x \in XSlices : x > Behind /\ GroupOf(f, x) # {} /\ ~ValidGroup(f, x)
    /\ \E f \in DOMAIN sim.files :
          Cardinality(GroupOf(f, Behind)) >= 10 /\ HeightOf(GroupOf(f, Behind)) # 0
              /\ WidthOf(GroupOf(f, Behind)) # 0
    /\ Len(ssRaw.rows) >= 1

\* C19: sliceSummary raises for a slice of fewer than 10 points or of zero
\* height or width, and every record it returns, those collected by
\* summarizeSlices included, has maxheight > 0, maxwidth > 0 and no field
\* left at the error value -100.
C19_NoDegenerateRecord ==
    /\ \A f \in DOMAIN sim.files : \A x \in XSlices :
          LET sli == GroupOf(f, x)
              r == sliceSummary(folderStats(Legend2), sli)
          IN /\ (Cardinality(sli) < 10 \/ HeightOf(sli) = 0 \/ WidthOf(sli) = 0)
                    => r.raised
             /\ ~r.raised =>
                    /\ r.rv.maxheight > 0 /\ r.rv.maxwidth > 0
                    /\ \A c \in DOMAIN r.rv : r.rv[c] # ErrorValue
    /\ \A i \in DOMAIN ssRaw.rows :
          /\ ssRaw.rows[i].maxheight > 0 /\ ssRaw.rows[i].maxwidth > 0
          /\ \A c \in DOMAIN ssRaw.rows[i] : ssRaw.rows[i][c] # ErrorValue

\* the folder held a slice of 10 points and zero height beyond the
\* threshold, one of 9 points, and one that gave a record
C19_Witness ==
    /\ SlicesSummarized
    /\ \E f \in DOMAIN sim.files : \E x \in XSlices :
          x > Behind /\ Cardinality(GroupOf(f, x)) = 10 /\ HeightOf(GroupOf(f, x)) = 0
    /\ \E f \in DOMAIN sim.files : \E x \in XSlices :
          x > Behind /\ Cardinality(GroupOf(f, x)) = 9
    /\ Len(ssRaw.rows) >= 1

\* C20 (as claimed): the rows summarize saves are strictly increasing in
\* (time, axial position): ascending, and no two rows share their pair.
C20_SavedRowsStrictlyIncreasing ==
    (sumPc = "done" /\ sim.saved.exists) =>
        \A i \in 1..(Len(sim.saved.rows) - 1) :
            TimeXBefore(sim.saved.rows[i], sim.saved.rows[i + 1])

-----------------------------------------------------------------------------
(* Properties of summarize under repetition and of sumAndSteady *)

\* C21 (as claimed): summarize returns 0 exactly when sliceSummaries.csv
\* exists after the call and holds at least one slice record, and 1 in
\* every other case; it returns no other value; a repeated call on the
\* folder returns the same code as the call before.
C21_ReturnCodeTellsRecords ==
    (sumPc # "input" /\ pipe.pc = "input") =>
        /\ sumRet \in {"0", "1"}
        /\ (sumRet = "0") <=> (sim.saved.exists /\ Len(sim.saved.rows) >= 1)
        /\ (sumPc = "again") => (sumRet = sumPrevRet)

\* the three files were there before the call
AllThreeBefore ==
    /\ pipe.before.saved.exists
    /\ pipe.before.tables.st.exists
    /\ pipe.before.tables.sp.exists

\* C28: sumAndSteady writes a steady table only in a call in which summarize
\* returned 0 before; when the interfacePoints folder is missing, or when
\* the three output files exist and overwrite is False, it writes no file.
C28_SteadyOnlyAfterSummary ==
    pipe.pc = "done" =>
        /\ (pipe.wrote \cap {"st", "sp"} # {}) => pipe.sret = "0"
        /\ pipe.sret # "0" => tables = pipe.before.tables
        /\ (~sim.ip \/ (~pipe.overwrite /\ AllThreeBefore)) =>
               /\ pipe.wrote = {}
               /\ sim.saved = pipe.before.saved
               /\ tables = pipe.before.tables

\* a call that wrote the three files, with a steady window in
\* steadyPositions.csv
C28_Witness ==
    /\ pipe.pc = "done"
    /\ pipe.sret = "0"
    /\ pipe.wrote = {"ss", "st", "sp"}
    /\ tables.sp.tab.rows # <<>>

====
